---- MODULE Spec2Model ----
(***************************************************************************)
(* The CDK4/6 knowledge base: scripts/build_data.py (section 5, the        *)
(* subtype networks, and section 6, the archive of data/stats), api.py,    *)
(* app.py (filter_by_node_code and the subgraph of the Global Network tab) *)
(* and scripts/build_mindmap.py (parse_to_jsmind).  Each program has its   *)
(* own variables and its own specification; the others stand still in it.  *)
(*                                                                         *)
(* The build script is a straight-line batch job; one behaviour is a       *)
(* sequence of invocations of the script over the same raw_data directory. *)
(*                                                                         *)
(* A file is a record [kind, cols, rows]: kind "absent" (no such file),    *)
(* "garbage" (bytes pandas cannot parse as a table) or "table" (a CSV with *)
(* a header line cols and data lines rows, every cell a string, the empty  *)
(* string for an empty cell).  A DataFrame is a record [cols, rows] whose  *)
(* cells are strings or NA (pandas' NaN).                                  *)
(***************************************************************************)
EXTENDS Integers, Sequences, FiniteSets, TLC

VARIABLES raw, out, pc, i, runs, merged, err, prev, prevDone, log, stats

\* api.py: the files of data/ it serves, the request being answered and the
\* answer
VARIABLES data, request, response

\* app.py: the table and code given to filter_by_node_code and its result;
\* the filtered rows of the Global Network tab and the subgraph built from them
VARIABLES app_pc, df_stats, selected_code, filtered, df_filt, node_type, edges

\* scripts/build_mindmap.py, parse_to_jsmind: where the call stands, the
\* lines, the number of lines taken, and the locals nodes, stack, cid, level
\* and nid
VARIABLES mind_pc, lines, pos, nodes, stack, cid, level, nid

buildVars == <<raw, out, pc, i, runs, merged, err, prev, prevDone, log, stats>>
apiVars == <<data, request, response>>
appVars == <<app_pc, df_stats, selected_code, filtered, df_filt, node_type, edges>>
mindVars == <<mind_pc, lines, pos, nodes, stack, cid, level, nid>>

\* what the build script never touches
others == <<apiVars, appVars, mindVars>>

vars == <<buildVars, apiVars, appVars, mindVars>>

-----------------------------------------------------------------------------
(* Bounds *)

MaxOrigRows == 2
MaxAugRows == 2
MaxRuns == 2

-----------------------------------------------------------------------------
(* Values *)

NA == "<NA>"

Absent == [kind |-> "absent", cols |-> <<>>, rows |-> <<>>]
Garbage == [kind |-> "garbage", cols |-> <<>>, rows |-> <<>>]

CsvFile(cols, rows) == [kind |-> "table", cols |-> cols, rows |-> rows]

Range(s) == {s[k] : k \in 1..Len(s)}

IndexOf(s, x) == CHOOSE k \in 1..Len(s) : s[k] = x

SeqsUpTo(S, n) == UNION {[1..k -> S] : k \in 0..n}

-----------------------------------------------------------------------------
(* The directory layout *)

subtype_folders == <<"luminal_original", "luminal_aug", "tnbc_original", "tnbc_aug">>

aug_map == <<"luminal_aug", "tnbc_aug">>

AugTags == Range(aug_map)

OriginalOf(tag) == IF tag = "luminal_aug" THEN "luminal_original" ELSE "tnbc_original"

EdgesFile(key) == <<key, "edges">>
NodesFile(key) == <<key, "nodes">>

OutFiles == {EdgesFile(k) : k \in Range(subtype_folders)}
              \cup {NodesFile(k) : k \in Range(subtype_folders)}

-----------------------------------------------------------------------------
(* pandas *)

LowerMap ==
  ("Source" :> "source") @@ ("Target" :> "target") @@ ("Gene1" :> "gene1")
    @@ ("Gene2" :> "gene2") @@ ("Weight" :> "weight")

StrLower(s) == IF s \in DOMAIN LowerMap THEN LowerMap[s] ELSE s

\* the cells pd.read_csv takes for a missing value (its default na_values): the
\* empty cell and spellings such as NA
NaValues == {"", "NA"}

\* pd.read_csv(path, dtype=str): every cell a string, a missing value NaN
ReadCsv(f) ==
  [cols |-> f.cols,
   rows |-> [k \in 1..Len(f.rows) |->
               [c \in 1..Len(f.rows[k]) |->
                  IF f.rows[k][c] \in NaValues THEN NA ELSE f.rows[k][c]]]]

\* a bug: the column names left as read
LowerColumnsSkipped(df) == df

\* df.columns = df.columns.str.lower()
LowerColumns(df) ==
  [cols |-> [c \in 1..Len(df.cols) |-> StrLower(df.cols[c])], rows |-> df.rows]

\* the rows of df laid out on the columns cols, NaN where df has no such column
Reindex(df, cols) ==
  [k \in 1..Len(df.rows) |->
     [c \in 1..Len(cols) |->
        IF cols[c] \in Range(df.cols)
          THEN df.rows[k][IndexOf(df.cols, cols[c])]
          ELSE NA]]

\* pd.concat([a, b], ignore_index=True): the union of the columns, a's first
Concat(a, b) ==
  LET new(c) == c \notin Range(a.cols)
      cols == a.cols \o SelectSeq(b.cols, new)
  IN [cols |-> cols, rows |-> Reindex(a, cols) \o Reindex(b, cols)]

KeepFirst(s) ==
  LET F[k \in 0..Len(s)] ==
        IF k = 0 THEN <<>>
        ELSE IF \E j \in 1..(k - 1) : s[j] = s[k]
               THEN F[k - 1]
               ELSE Append(F[k - 1], s[k])
  IN F[Len(s)]

\* a bug: rows compared by their unordered endpoint pair only
DropDuplicatesUndirected(df) ==
  LET s == df.rows
      same(r, q) == {r[1], r[2]} = {q[1], q[2]}
      F[k \in 0..Len(s)] ==
        IF k = 0 THEN <<>>
        ELSE IF \E j \in 1..(k - 1) : same(s[j], s[k])
               THEN F[k - 1]
               ELSE Append(F[k - 1], s[k])
  IN [cols |-> df.cols, rows |-> F[Len(s)]]

\* a bug: keep=False, every copy of a repeated row dropped
DropDuplicatesKeepNone(df) ==
  LET s == df.rows
      once(r) == Cardinality({k \in 1..Len(s) : s[k] = r}) = 1
  IN [cols |-> df.cols, rows |-> SelectSeq(s, once)]

\* a bug: keep="last"
DropDuplicatesKeepLast(df) ==
  LET s == df.rows
      F[k \in 0..Len(s)] ==
        IF k = 0 THEN <<>>
        ELSE IF \E j \in (k + 1)..Len(s) : s[j] = s[k]
               THEN F[k - 1]
               ELSE Append(F[k - 1], s[k])
  IN [cols |-> df.cols, rows |-> F[Len(s)]]

\* df.drop_duplicates(): keep="first", all columns, NaN equal to NaN
DropDuplicates(df) == [cols |-> df.cols, rows |-> KeepFirst(df.rows)]

\* a bug: the first two columns, whatever their names
NodeColumnsPositional(df) ==
  [c \in 1..(IF Len(df.cols) < 2 THEN Len(df.cols) ELSE 2) |-> c]

\* the positions of the two columns the node list is read from
NodeColumns(df) ==
  IF "source" \in Range(df.cols) /\ "target" \in Range(df.cols)
    THEN <<IndexOf(df.cols, "source"), IndexOf(df.cols, "target")>>
    ELSE [c \in 1..(IF Len(df.cols) < 2 THEN Len(df.cols) ELSE 2) |-> c]

\* df[...].values.ravel(): the cells of the columns at, row by row
Ravel(df, at) ==
  [n \in 1..(Len(df.rows) * Len(at)) |->
     df.rows[((n - 1) \div Len(at)) + 1][at[((n - 1) % Len(at)) + 1]]]

\* a bug: the source column only
AllNodesSourceOnly(df) ==
  KeepFirst(Ravel(df, SubSeq(NodeColumns(df), 1, 1)))

\* pd.unique(...): first occurrences, in order
AllNodes(df) == KeepFirst(Ravel(df, NodeColumns(df)))

\* pd.DataFrame({"id": all_nodes})
NodesFrame(all_nodes) ==
  [cols |-> <<"id">>, rows |-> [k \in 1..Len(all_nodes) |-> <<all_nodes[k]>>]]

\* what df.to_csv(path, index=False) puts in the file: NaN as an empty cell
CsvOf(df) ==
  CsvFile(df.cols,
          [k \in 1..Len(df.rows) |->
             [c \in 1..Len(df.rows[k]) |->
                IF df.rows[k][c] = NA THEN "" ELSE df.rows[k][c]]])

\* a bug: mode="a", the new lines after the old ones
ToCsvAppend(old, df) ==
  IF old.kind = "table"
    THEN CsvFile(old.cols, old.rows \o CsvOf(df).rows)
    ELSE CsvOf(df)

\* df.to_csv(path, index=False) over a file holding old: the file is replaced
ToCsv(old, df) == CsvOf(df)

\* df_combined of the files orig and aug
Combined(orig, aug) ==
  DropDuplicates(Concat(LowerColumns(ReadCsv(orig)), LowerColumns(ReadCsv(aug))))

-----------------------------------------------------------------------------
(* The files of raw_data.  For an augmented tag t, raw[t] holds              *)
(*   orig_edges, orig_nodes  the original subtype's <key>_edges.csv and       *)
(*                           <key>_nodes.csv (aug_map and the 5.1 loop name   *)
(*                           the same two files of the original's folder),    *)
(*   aug_edges               the inferred edge list of the tag's own folder,  *)
(*   own_*                   <tag>_nodes / <tag>_edges of the tag's own       *)
(*                           folder, as .csv or as .xlsx.                     *)
(* For tnbc the two loops spell the names TNBC_original_* and                 *)
(* tnbc_original_*: one file where file names ignore case, as on the machine  *)
(* the script's comments are written for.  The original subtypes are taken to *)
(* have no .xlsx tables.  raw_data stays as it is from one invocation to the  *)
(* next; what earlier builds of other inputs left behind is in the initial    *)
(* content of data/subtype.  Only the writes of the merge loop can fail.      *)

SampleOrigEdges(tag) ==
  IF tag = "luminal_aug"
    THEN CsvFile(<<"Source", "Target">>, << <<"A", "B">> >>)
    ELSE CsvFile(<<"source", "target">>, << <<"A", "B">>, <<"B", "C">> >>)

SampleOrigNodes(tag) ==
  IF tag = "luminal_aug"
    THEN CsvFile(<<"id">>, << <<"A">>, <<"B">> >>)
    ELSE CsvFile(<<"id">>, << <<"A">>, <<"B">>, <<"C">> >>)

SampleAugEdges(tag) ==
  IF tag = "luminal_aug"
    THEN CsvFile(<<"source", "target">>, << <<"A", "B">>, <<"C", "D">> >>)
    ELSE CsvFile(<<"source", "target">>, << <<"C", "B">> >>)

OwnEdges == CsvFile(<<"source", "target">>, << <<"E", "F">> >>)
OwnNodes == CsvFile(<<"id">>, << <<"E">>, <<"F">> >>)

\* what an earlier build of other inputs left in data/subtype
OldEdges == CsvFile(<<"source", "target">>, << <<"G", "H">> >>)
OldNodes == CsvFile(<<"id">>, << <<"G">>, <<"H">> >>)

NoOwnTables ==
  [nodes_csv |-> Absent, edges_csv |-> Absent, nodes_xlsx |-> Absent, edges_xlsx |-> Absent]

OwnTables ==
  { NoOwnTables,
    [nodes_csv |-> OwnNodes, edges_csv |-> OwnEdges, nodes_xlsx |-> Absent, edges_xlsx |-> Absent],
    [nodes_csv |-> Absent, edges_csv |-> Absent, nodes_xlsx |-> OwnNodes, edges_xlsx |-> Garbage] }

RawFolder(oe, on, ae, own) ==
  [orig_edges |-> oe, orig_nodes |-> on, aug_edges |-> ae,
   own_nodes_csv |-> own.nodes_csv, own_edges_csv |-> own.edges_csv,
   own_nodes_xlsx |-> own.nodes_xlsx, own_edges_xlsx |-> own.edges_xlsx]

SampleFolders(tag) ==
  { RawFolder(oe, on, ae, own) :
      oe \in {Absent, Garbage, SampleOrigEdges(tag)},
      on \in {Absent, SampleOrigNodes(tag)},
      ae \in {Absent, Garbage, SampleAugEdges(tag)},
      own \in OwnTables }

EmptyFolder == RawFolder(Absent, Absent, Absent, NoOwnTables)

NoOutput == [f \in OutFiles |-> Absent]

OldOutput ==
  [f \in OutFiles |->
     IF f[1] \in AugTags
       THEN (IF f[2] = "edges" THEN OldEdges ELSE OldNodes)
       ELSE Absent]

\* the edge lists the merge is checked on
EdgePairs == {<<"A", "B">>, <<"B", "A">>, <<"C", "D">>, <<"A", "">>}
WeightedPairs == {<<"A", "B", "1">>, <<"A", "B", "2">>, <<"B", "A", "1">>}
Headers == {<<"source", "target">>, <<"Source", "Target">>,
            <<"gene1", "gene2">>, <<"target", "source">>}
WeightedHeader == <<"source", "target", "weight">>

EdgeTables(n) ==
  {CsvFile(h, r) : h \in Headers, r \in SeqsUpTo(EdgePairs, n)}
    \cup {CsvFile(WeightedHeader, r) : r \in SeqsUpTo(WeightedPairs, n)}

-----------------------------------------------------------------------------
(* data/stats and its archive.  A directory entry is a record [kind, text, *)
(* members]: kind "absent", "dir" or "file"; text stands for the bytes of  *)
(* a plain file; members are the entries of a zip archive, each a pair of  *)
(* its name in the archive and the text of the file stored under it.       *)

NoEntry == [kind |-> "absent", text |-> "", members |-> {}]
Directory == [kind |-> "dir", text |-> "", members |-> {}]

PlainFile(text) == [kind |-> "file", text |-> text, members |-> {}]

\* what zipfile.ZipFile(zip_path, mode="w") leaves once closed
ArchiveFile(members) == [kind |-> "file", text |-> "PK", members |-> members]

zip_name == "cdk4_6_kb_full.zip"

StatNames == {"cdk4_6_kb.csv", "notes.txt", "old.ZIP", "figures", zip_name}

\* Path.suffix
Suffix(name) ==
  CASE name = "cdk4_6_kb.csv" -> ".csv"
    [] name = "notes.txt" -> ".txt"
    [] name = "old.ZIP" -> ".ZIP"
    [] name = zip_name -> ".zip"
    [] OTHER -> ""

\* a bug: the suffix compared as it is spelled
SuffixLowerSkipped(sfx) == sfx

\* str.lower() of a suffix
SuffixLower(sfx) == IF sfx = ".ZIP" THEN ".zip" ELSE sfx

\* files_to_zip: the names iterdir yields that are files and not .zip
FilesToZip(dir) ==
  {n \in StatNames : dir[n].kind = "file" /\ SuffixLower(Suffix(n)) # ".zip"}

\* the directory after make_stats_zip
StatsZipped(dir) ==
  IF FilesToZip(dir) = {}
    THEN dir
    ELSE [dir EXCEPT ![zip_name] =
            ArchiveFile({<<n, dir[n].text>> : n \in FilesToZip(dir)})]

TextVersions == {"v1", "v2"}

StaleArchive == ArchiveFile({<<"gone.csv", "v1">>})

\* data/stats as section 1 leaves it, without an archive
StatsWithoutArchive ==
  {[n \in StatNames |->
      CASE n = "cdk4_6_kb.csv" -> kb
        [] n = "notes.txt" -> notes
        [] n = "old.ZIP" -> old
        [] n = "figures" -> fig
        [] OTHER -> NoEntry] :
     kb \in {NoEntry} \cup {PlainFile(t) : t \in TextVersions},
     notes \in {NoEntry} \cup {PlainFile(t) : t \in TextVersions},
     old \in {NoEntry, StaleArchive},
     fig \in {NoEntry, Directory}}

\* ... and with no archive, one of another time, or the one of the last build
StatsDirs ==
  UNION {{d, [d EXCEPT ![zip_name] = StaleArchive], StatsZipped(d)} :
           d \in StatsWithoutArchive}

EmptyStats == [n \in StatNames |-> NoEntry]

SampleStats ==
  {[EmptyStats EXCEPT ![zip_name] = StaleArchive],
   [EmptyStats EXCEPT !["cdk4_6_kb.csv"] = PlainFile("v1"),
                      !["old.ZIP"] = StaleArchive,
                      !["figures"] = Directory]}

-----------------------------------------------------------------------------
(* Initial states *)

\* a DataFrame without columns or rows
EmptyFrame == [cols |-> <<>>, rows |-> <<>>]

\* api.py not serving, app.py and build_mindmap.py not running
NoRequest == [endpoint |-> "", name |-> "", has_top |-> FALSE, top |-> 0]
NoResponse == [status |-> 0, key |-> "", rows |-> <<>>, elements |-> ""]
NoData == [tables |-> <<>>, docs |-> <<>>]

ApiIdle == data = NoData /\ request = NoRequest /\ response = NoResponse

AppIdle ==
  /\ app_pc = "idle"
  /\ df_stats = EmptyFrame
  /\ selected_code = <<>>
  /\ filtered = EmptyFrame
  /\ df_filt = EmptyFrame
  /\ node_type = <<>>
  /\ edges = {}

MindIdle ==
  /\ mind_pc = "idle"
  /\ lines = <<>>
  /\ pos = 0
  /\ nodes = <<>>
  /\ stack = <<>>
  /\ cid = 0
  /\ level = 0
  /\ nid = <<>>

\* the build script has run over an empty raw_data
BuildIdle ==
  /\ raw = [t \in AugTags |-> EmptyFolder]
  /\ out = NoOutput
  /\ pc = "done"
  /\ i = 0
  /\ runs = 1
  /\ merged = {}
  /\ err = "none"
  /\ prev = out
  /\ prevDone = FALSE
  /\ log = <<>>
  /\ stats = EmptyStats

Init ==
  /\ raw \in [AugTags -> UNION {SampleFolders(t) : t \in AugTags}]
  /\ \A t \in AugTags : raw[t] \in SampleFolders(t)
  /\ out \in {NoOutput, OldOutput}
  /\ pc = "copy"
  /\ i = 0
  /\ runs = 1
  /\ merged = {}
  /\ err = "none"
  /\ prev = out
  /\ prevDone = FALSE
  /\ log = <<>>
  /\ stats \in SampleStats
  /\ ApiIdle
  /\ AppIdle
  /\ MindIdle

\* one augmented subtype about to be merged, its two edge lists any tables
MergeInit ==
  /\ \E oe \in EdgeTables(MaxOrigRows), ae \in EdgeTables(MaxAugRows) :
       raw = [t \in AugTags |->
                IF t = aug_map[1]
                  THEN RawFolder(oe, SampleOrigNodes(t), ae, NoOwnTables)
                  ELSE EmptyFolder]
  /\ out = NoOutput
  /\ pc = "merge"
  /\ i = 1
  /\ runs = 1
  /\ merged = {}
  /\ err = "none"
  /\ prev = out
  /\ prevDone = FALSE
  /\ log = <<>>
  /\ stats = EmptyStats
  /\ ApiIdle
  /\ AppIdle
  /\ MindIdle

\* the script about to call make_stats_zip, data/stats any directory
ZipInit ==
  /\ raw = [t \in AugTags |-> EmptyFolder]
  /\ out = NoOutput
  /\ pc = "zip"
  /\ i = Len(aug_map) + 1
  /\ runs = 1
  /\ merged = {}
  /\ err = "none"
  /\ prev = out
  /\ prevDone = FALSE
  /\ log = <<>>
  /\ stats \in StatsDirs
  /\ ApiIdle
  /\ AppIdle
  /\ MindIdle

-----------------------------------------------------------------------------
(* 5.1: the copy loop over subtype_folders *)

\* pd.read_excel(path)
ReadExcel(f) == ReadCsv(f)

\* step 3 of the loop body for one key: its tables, .csv first, else .xlsx
CopyTables(o, key, nodes_csv, edges_csv, nodes_xlsx, edges_xlsx) ==
  IF nodes_csv.kind # "absent" /\ edges_csv.kind # "absent"
    THEN [o EXCEPT ![NodesFile(key)] = nodes_csv, ![EdgesFile(key)] = edges_csv]
  ELSE IF nodes_xlsx.kind # "absent" /\ edges_xlsx.kind # "absent"
    THEN IF nodes_xlsx.kind = "garbage"
           THEN o
         ELSE IF edges_xlsx.kind = "garbage"
           THEN [o EXCEPT ![NodesFile(key)] = ToCsv(o[NodesFile(key)], ReadExcel(nodes_xlsx))]
         ELSE [o EXCEPT ![NodesFile(key)] = ToCsv(o[NodesFile(key)], ReadExcel(nodes_xlsx)),
                        ![EdgesFile(key)] = ToCsv(o[EdgesFile(key)], ReadExcel(edges_xlsx))]
  ELSE o

CopyKey(o, key) ==
  IF key \in AugTags
    THEN CopyTables(o, key, raw[key].own_nodes_csv, raw[key].own_edges_csv,
                    raw[key].own_nodes_xlsx, raw[key].own_edges_xlsx)
    ELSE LET t == CHOOSE a \in AugTags : OriginalOf(a) = key
         IN CopyTables(o, key, raw[t].orig_nodes, raw[t].orig_edges, Absent, Absent)

CopyAll ==
  LET F[k \in 0..Len(subtype_folders)] ==
        IF k = 0 THEN out ELSE CopyKey(F[k - 1], subtype_folders[k])
  IN F[Len(subtype_folders)]

CopySubtypes ==
  /\ pc = "copy"
  /\ out' = CopyAll
  /\ pc' = "merge"
  /\ i' = 1
  /\ UNCHANGED <<others, stats, raw, runs, merged, err, prev, prevDone, log>>

-----------------------------------------------------------------------------
(* 5.2: the merge loop over aug_map, one action per way an iteration ends *)

Tag == aug_map[i]

InLoop == pc = "merge" /\ i \in 1..Len(aug_map)

SourcesExist(tag) ==
  /\ raw[tag].orig_edges.kind # "absent"
  /\ raw[tag].orig_nodes.kind # "absent"
  /\ raw[tag].aug_edges.kind # "absent"

SourcesParse(tag) ==
  /\ raw[tag].orig_edges.kind = "table"
  /\ raw[tag].aug_edges.kind = "table"

\* the loop goes on to the next tag, or ends
Continue ==
  /\ i' = i + 1
  /\ pc' = IF i = Len(aug_map) THEN "copy_aug" ELSE "merge"

\* an exception nothing catches: the script ends
Abort(why) ==
  /\ pc' = "crashed"
  /\ err' = why
  /\ i' = i

\* a line of the script's output: what it is about, the subtype and the paths
\* it names, the two counts of a merge summary
Report(kind, tag, paths, n_nodes, n_edges) ==
  [kind |-> kind, tag |-> tag, paths |-> paths, nodes |-> n_nodes, edges |-> n_edges]

\* the warning of the first existence check that fails
MissingReport(tag) ==
  IF raw[tag].orig_edges.kind = "absent" \/ raw[tag].orig_nodes.kind = "absent"
    THEN Report("missing_original", OriginalOf(tag), {"orig_edges", "orig_nodes"}, 0, 0)
    ELSE Report("missing_augmented", tag, {"aug_edges"}, 0, 0)

\* a bug: a missing source ends the script
MergeSkipMissingAborts ==
  /\ InLoop
  /\ ~SourcesExist(Tag)
  /\ Abort("missing")
  /\ UNCHANGED <<others, stats, raw, out, runs, merged, prev, prevDone, log>>

\* a source file is missing: a warning, continue
MergeSkipMissing ==
  /\ InLoop
  /\ ~SourcesExist(Tag)
  /\ log' = Append(log, MissingReport(Tag))
  /\ Continue
  /\ UNCHANGED <<others, stats, raw, out, runs, merged, err, prev, prevDone>>

\* pd.read_csv raises on either edge list
MergeParseFailure ==
  /\ InLoop
  /\ SourcesExist(Tag)
  /\ ~SourcesParse(Tag)
  /\ Abort("parse")
  /\ UNCHANGED <<others, stats, raw, out, runs, merged, prev, prevDone, log>>

\* a bug: out_edges named without the tag, one edge file for every subtype
MergeWriteEdgesFailureSharedPath ==
  /\ InLoop
  /\ SourcesExist(Tag)
  /\ SourcesParse(Tag)
  /\ \E left \in {out[EdgesFile(aug_map[1])], Garbage} :
       out' = [out EXCEPT ![EdgesFile(aug_map[1])] = left]
  /\ Abort("write")
  /\ UNCHANGED <<others, stats, raw, runs, merged, prev, prevDone, log>>

\* df_combined.to_csv raises: the file is as it was, or cut short
MergeWriteEdgesFailure ==
  /\ InLoop
  /\ SourcesExist(Tag)
  /\ SourcesParse(Tag)
  /\ \E left \in {out[EdgesFile(Tag)], Garbage} :
       out' = [out EXCEPT ![EdgesFile(Tag)] = left]
  /\ Abort("write")
  /\ UNCHANGED <<others, stats, raw, runs, merged, prev, prevDone, log>>

\* a bug: the failed write of the node file is caught and the loop goes on
MergeWriteNodesFailureCaught ==
  /\ InLoop
  /\ SourcesExist(Tag)
  /\ SourcesParse(Tag)
  /\ LET df_combined == Combined(raw[Tag].orig_edges, raw[Tag].aug_edges)
     IN \E left \in {out[NodesFile(Tag)], Garbage} :
          out' = [out EXCEPT ![EdgesFile(Tag)] = ToCsv(out[EdgesFile(Tag)], df_combined),
                             ![NodesFile(Tag)] = left]
  /\ err' = "write"
  /\ Continue
  /\ UNCHANGED <<others, stats, raw, runs, merged, prev, prevDone, log>>

\* the edges are written, df_nodes.to_csv raises
MergeWriteNodesFailure ==
  /\ InLoop
  /\ SourcesExist(Tag)
  /\ SourcesParse(Tag)
  /\ LET df_combined == Combined(raw[Tag].orig_edges, raw[Tag].aug_edges)
     IN \E left \in {out[NodesFile(Tag)], Garbage} :
          out' = [out EXCEPT ![EdgesFile(Tag)] = ToCsv(out[EdgesFile(Tag)], df_combined),
                             ![NodesFile(Tag)] = left]
  /\ Abort("write")
  /\ UNCHANGED <<others, stats, raw, runs, merged, prev, prevDone, log>>

\* a bug: the output paths named without the tag, one pair of files for every
\* subtype
MergeOkSharedPath ==
  /\ InLoop
  /\ SourcesExist(Tag)
  /\ SourcesParse(Tag)
  /\ LET df_combined == Combined(raw[Tag].orig_edges, raw[Tag].aug_edges)
         df_nodes == NodesFrame(AllNodes(df_combined))
         first == aug_map[1]
     IN /\ out' = [out EXCEPT ![EdgesFile(first)] = ToCsv(out[EdgesFile(first)], df_combined),
                              ![NodesFile(first)] = ToCsv(out[NodesFile(first)], df_nodes)]
        /\ log' = Append(log, Report("merged", Tag, {}, Len(AllNodes(df_combined)),
                                     Len(df_combined.rows)))
  /\ merged' = merged \cup {Tag}
  /\ Continue
  /\ UNCHANGED <<others, stats, raw, runs, err, prev, prevDone>>

\* both files written
MergeOk ==
  /\ InLoop
  /\ SourcesExist(Tag)
  /\ SourcesParse(Tag)
  /\ LET df_combined == Combined(raw[Tag].orig_edges, raw[Tag].aug_edges)
         df_nodes == NodesFrame(AllNodes(df_combined))
     IN /\ out' = [out EXCEPT ![EdgesFile(Tag)] = ToCsv(out[EdgesFile(Tag)], df_combined),
                              ![NodesFile(Tag)] = ToCsv(out[NodesFile(Tag)], df_nodes)]
        /\ log' = Append(log, Report("merged", Tag, {}, Len(AllNodes(df_combined)),
                                     Len(df_combined.rows)))
  /\ merged' = merged \cup {Tag}
  /\ Continue
  /\ UNCHANGED <<others, stats, raw, runs, err, prev, prevDone>>

-----------------------------------------------------------------------------
(* 5.3, 6 and the next invocation *)

\* 5.3: the augmented subtypes' .cyjs and style files; no table is touched
CopyAugStyles ==
  /\ pc = "copy_aug"
  /\ pc' = "zip"
  /\ log' = Append(log, Report("subtypes_built", "", {}, 0, 0))
  /\ UNCHANGED <<others, stats, raw, out, i, runs, merged, err, prev, prevDone>>

\* 6: make_stats_zip and the last line of the script; no table is touched
MakeStatsZip ==
  /\ pc = "zip"
  /\ stats' = StatsZipped(stats)
  /\ pc' = "done"
  /\ log' = Append(log, Report("all_built", "", {}, 0, 0))
  /\ UNCHANGED <<others, raw, out, i, runs, merged, err, prev, prevDone>>

\* the script is run again over the same raw_data
Rebuild ==
  /\ pc \in {"done", "crashed"}
  /\ runs < MaxRuns
  /\ runs' = runs + 1
  /\ prev' = out
  /\ prevDone' = (pc = "done")
  /\ pc' = "copy"
  /\ i' = 0
  /\ merged' = {}
  /\ err' = "none"
  /\ log' = <<>>
  /\ UNCHANGED <<others, stats, raw, out>>

Next ==
  \/ CopySubtypes
  \/ MergeSkipMissing
  \/ MergeParseFailure
  \/ MergeWriteEdgesFailure
  \/ MergeWriteNodesFailure
  \/ MergeOk
  \/ CopyAugStyles
  \/ MakeStatsZip
  \/ Rebuild

Spec == Init /\ [][Next]_vars

MergeNext == MergeOk

MergeSpec == MergeInit /\ [][MergeNext]_vars

ZipNext == MakeStatsZip

ZipSpec == ZipInit /\ [][ZipNext]_vars

-----------------------------------------------------------------------------
(* api.py.  data.tables maps the path of a table under data/ to the file,  *)
(* data.docs the path of a .cyjs to its document: a record [kind, top,     *)
(* has_elements, elements] with kind "absent", "text" (not JSON) or "json",*)
(* top the JSON value's type, and elements the value under the key         *)
(* "elements", a token, "null" for JSON's null and "[]" for the empty list.*)

MaxApiRows == 2
MaxTop == 2

default_top == 30

SubtypeNodesPath(tag) == <<"subtype", tag, "_nodes.csv">>
SubtypeEdgesPath(tag) == <<"subtype", tag, "_edges.csv">>
CentralityPath(metric_name) == <<"centrality", metric_name, ".csv">>
OrganicPath(stem, ext) == <<"organic", stem, ext>>
SubtypeCyjsPath(tag) == <<"subtype", tag, ".cyjs">>
OrganicCyjsPath == <<"organic", "organic_full", ".cyjs">>

\* the names a request can carry: one that has files, one that has none
ApiNames == {"tnbc_original", "nowhere"}

TablePaths ==
  {SubtypeNodesPath(t) : t \in ApiNames} \cup {SubtypeEdgesPath(t) : t \in ApiNames}
    \cup {CentralityPath(m) : m \in ApiNames}
    \cup {OrganicPath(st, e) : st \in {"organic_nodes", "organic_edges"},
                               e \in {".xlsx", ".csv"}}

DocPaths == {SubtypeCyjsPath(t) : t \in ApiNames} \cup {OrganicCyjsPath}

NoDoc == [kind |-> "absent", top |-> "", has_elements |-> FALSE, elements |-> ""]
TextDoc == [kind |-> "text", top |-> "", has_elements |-> FALSE, elements |-> ""]

JsonDoc(top, has_elements, elements) ==
  [kind |-> "json", top |-> top, has_elements |-> has_elements, elements |-> elements]

Docs ==
  {NoDoc, TextDoc, JsonDoc("array", FALSE, ""), JsonDoc("object", FALSE, ""),
   JsonDoc("object", TRUE, "null"), JsonDoc("object", TRUE, "[]"),
   JsonDoc("object", TRUE, "{nodes,edges}")}

NodeFiles ==
  {Absent, Garbage}
    \cup {CsvFile(<<"id">>, r) : r \in SeqsUpTo({<<"A">>, <<"B">>, <<"NA">>}, MaxApiRows)}

EdgeFiles ==
  {Absent, Garbage}
    \cup {CsvFile(<<"source", "target">>, r) :
            r \in SeqsUpTo({<<"A", "B">>, <<"NA", "B">>, <<"A", "">>}, MaxApiRows)}

ScoreFiles ==
  {Absent, Garbage}
    \cup {CsvFile(<<"node", "score">>, r) :
            r \in SeqsUpTo({<<"A", "3">>, <<"B", "2">>, <<"C", "">>}, MaxApiRows)}

\* organic tables: the workbook and the .csv of one stem hold different rows
WorkbookFiles == {Absent, Garbage, CsvFile(<<"id">>, << <<"X">>, <<"">> >>)}
OrganicCsvFiles == {Absent, Garbage, CsvFile(<<"id">>, << <<"C">> >>)}

NoTables == [p \in TablePaths |-> Absent]
NoDocs == [p \in DocPaths |-> NoDoc]

\* data/ with the files of one module, the other modules' files missing
SubtypeData ==
  {[tables |-> [NoTables EXCEPT ![SubtypeNodesPath("tnbc_original")] = n,
                                ![SubtypeEdgesPath("tnbc_original")] = e],
    docs |-> NoDocs] : n \in NodeFiles, e \in EdgeFiles}

CentralityData ==
  {[tables |-> [NoTables EXCEPT ![CentralityPath("tnbc_original")] = f], docs |-> NoDocs] :
     f \in ScoreFiles}

OrganicData ==
  {[tables |-> [NoTables EXCEPT ![OrganicPath("organic_nodes", ".xlsx")] = nx,
                                ![OrganicPath("organic_nodes", ".csv")] = nc,
                                ![OrganicPath("organic_edges", ".xlsx")] = ex,
                                ![OrganicPath("organic_edges", ".csv")] = ec],
    docs |-> NoDocs] :
     nx \in WorkbookFiles, nc \in OrganicCsvFiles,
     ex \in WorkbookFiles, ec \in OrganicCsvFiles}

CyjsData ==
  {[tables |-> NoTables,
    docs |-> [NoDocs EXCEPT ![SubtypeCyjsPath("tnbc_original")] = d, ![OrganicCyjsPath] = o]] :
     d \in Docs, o \in Docs}

ApiInit ==
  /\ data \in SubtypeData \cup CentralityData \cup OrganicData \cup CyjsData
  /\ request = NoRequest
  /\ response = NoResponse
  /\ BuildIdle
  /\ AppIdle
  /\ MindIdle

\* df.fillna("")
FillNa(frame) ==
  [cols |-> frame.cols,
   rows |-> [k \in 1..Len(frame.rows) |->
               [c \in 1..Len(frame.rows[k]) |->
                  IF frame.rows[k][c] = NA THEN "" ELSE frame.rows[k][c]]]]

\* df.to_dict(orient="records"): one object per row, the column names its keys
ToDict(frame) ==
  [k \in 1..Len(frame.rows) |->
     [c \in Range(frame.cols) |-> frame.rows[k][IndexOf(frame.cols, c)]]]

Min(a, b) == IF a < b THEN a ELSE b

\* a bug: the last n rows
DfTail(frame, n) ==
  [cols |-> frame.cols,
   rows |-> SubSeq(frame.rows, Len(frame.rows) - Min(n, Len(frame.rows)) + 1,
                   Len(frame.rows))]

\* df.head(n), n >= 1
DfHead(frame, n) ==
  [cols |-> frame.cols, rows |-> SubSeq(frame.rows, 1, Min(n, Len(frame.rows)))]

\* HTTPException(status_code), the 500 of an exception no handler catches, the
\* 422 of a query parameter that fails validation
Failure(status) == [status |-> status, key |-> "", rows |-> <<>>, elements |-> ""]

RowsResponse(key, rows) == [status |-> 200, key |-> key, rows |-> rows, elements |-> ""]

ElementsResponse(elements) ==
  [status |-> 200, key |-> "elements", rows |-> <<>>, elements |-> elements]

Request(endpoint, name) == [endpoint |-> endpoint, name |-> name, has_top |-> FALSE, top |-> 0]

\* pd.read_csv(fp, dtype=str).fillna("") ... to_dict(orient="records"), no
\* exception caught
TableResponse(key, f) ==
  IF f.kind = "absent" THEN Failure(404)
  ELSE IF f.kind = "garbage" THEN Failure(500)
  ELSE RowsResponse(key, ToDict(FillNa(ReadCsv(f))))

get_subtype_nodes ==
  \E tag \in ApiNames :
    /\ request' = Request("/api/subtype/{tag}/nodes", tag)
    /\ response' = TableResponse("nodes", data.tables[SubtypeNodesPath(tag)])
    /\ UNCHANGED <<data, buildVars, appVars, mindVars>>

get_subtype_edges ==
  \E tag \in ApiNames :
    /\ request' = Request("/api/subtype/{tag}/edges", tag)
    /\ response' = TableResponse("edges", data.tables[SubtypeEdgesPath(tag)])
    /\ UNCHANGED <<data, buildVars, appVars, mindVars>>

\* top as the handler gets it: the query parameter, or the default
TopOf(req) == IF req.has_top THEN req.top ELSE default_top

CentralityResponse(f, top) ==
  IF top < 1 THEN Failure(422)
  ELSE IF f.kind = "absent" THEN Failure(404)
  ELSE IF f.kind = "garbage" THEN Failure(500)
  ELSE RowsResponse("rows", ToDict(DfHead(FillNa(ReadCsv(f)), top)))

get_centrality_metric ==
  \E metric_name \in ApiNames, has_top \in BOOLEAN, top \in 0..MaxTop :
    /\ ~has_top => top = 0
    /\ request' = [endpoint |-> "/api/centrality/{metric_name}", name |-> metric_name,
                   has_top |-> has_top, top |-> top]
    /\ response' = CentralityResponse(data.tables[CentralityPath(metric_name)],
                                      TopOf(request'))
    /\ UNCHANGED <<data, buildVars, appVars, mindVars>>

\* a bug: an unreadable workbook falls through to the .csv
OrganicResponseFallsThrough(key, xlsx, csv) ==
  IF xlsx.kind = "table" THEN RowsResponse(key, ToDict(FillNa(ReadExcel(xlsx))))
  ELSE IF csv.kind = "table" THEN RowsResponse(key, ToDict(FillNa(ReadCsv(csv))))
  ELSE IF xlsx.kind = "absent" /\ csv.kind = "absent" THEN Failure(404)
  ELSE Failure(500)

\* the .xlsx if it exists, else the .csv if it exists, else 404; 500 if the
\* one chosen cannot be read
OrganicResponse(key, xlsx, csv) ==
  IF xlsx.kind # "absent"
    THEN IF xlsx.kind = "garbage"
           THEN Failure(500)
           ELSE RowsResponse(key, ToDict(FillNa(ReadExcel(xlsx))))
  ELSE IF csv.kind # "absent"
    THEN IF csv.kind = "garbage"
           THEN Failure(500)
           ELSE RowsResponse(key, ToDict(FillNa(ReadCsv(csv))))
  ELSE Failure(404)

get_organic_nodes ==
  /\ request' = Request("/api/organic/nodes", "")
  /\ response' = OrganicResponse("nodes", data.tables[OrganicPath("organic_nodes", ".xlsx")],
                                data.tables[OrganicPath("organic_nodes", ".csv")])
  /\ UNCHANGED <<data, buildVars, appVars, mindVars>>

get_organic_edges ==
  /\ request' = Request("/api/organic/edges", "")
  /\ response' = OrganicResponse("edges", data.tables[OrganicPath("organic_edges", ".xlsx")],
                                data.tables[OrganicPath("organic_edges", ".csv")])
  /\ UNCHANGED <<data, buildVars, appVars, mindVars>>

\* a bug: no test for None, the value returned as it is
SubtypeElementsResponseNoDefault(doc) ==
  IF doc.kind = "absent" THEN Failure(404)
  ELSE IF doc.kind = "text" THEN Failure(500)
  ELSE IF doc.top # "object" THEN Failure(500)
  ELSE ElementsResponse(IF doc.has_elements THEN doc.elements ELSE "null")

\* full_dict.get("elements"): None for a missing key and for null; a JSON value
\* that is not an object has no get, the AttributeError is a 500
SubtypeElementsResponse(doc) ==
  IF doc.kind = "absent" THEN Failure(404)
  ELSE IF doc.kind = "text" THEN Failure(500)
  ELSE IF doc.top # "object" THEN Failure(500)
  ELSE LET elements_list == IF doc.has_elements THEN doc.elements ELSE "null"
       IN IF elements_list = "null"
            THEN ElementsResponse("[]")
            ELSE ElementsResponse(elements_list)

OrganicElementsResponse(doc) ==
  IF doc.kind = "absent" THEN Failure(404)
  ELSE IF doc.kind = "text" THEN Failure(500)
  ELSE IF doc.top # "object" THEN Failure(500)
  ELSE LET elements_obj == IF doc.has_elements THEN doc.elements ELSE "null"
       IN IF elements_obj = "null"
            THEN Failure(500)
            ELSE ElementsResponse(elements_obj)

get_subtype_elements ==
  \E tag \in ApiNames :
    /\ request' = Request("/api/subtype/{tag}/elements", tag)
    /\ response' = SubtypeElementsResponse(data.docs[SubtypeCyjsPath(tag)])
    /\ UNCHANGED <<data, buildVars, appVars, mindVars>>

get_organic_elements ==
  /\ request' = Request("/api/organic/elements", "")
  /\ response' = OrganicElementsResponse(data.docs[OrganicCyjsPath])
  /\ UNCHANGED <<data, buildVars, appVars, mindVars>>

ApiNext ==
  \/ get_subtype_nodes
  \/ get_subtype_edges
  \/ get_centrality_metric
  \/ get_organic_nodes
  \/ get_organic_edges
  \/ get_subtype_elements
  \/ get_organic_elements

ApiSpec == ApiInit /\ [][ApiNext]_vars

-----------------------------------------------------------------------------
(* app.py, filter_by_node_code.  A code such as 1.2.3 is the sequence of    *)
(* its parts between the dots, <<"1", "2", "3">>: it has one dot less than  *)
(* parts, and two codes are the same string exactly when they are the same  *)
(* sequence.  A cell of a label column is a code, or NaN, written <<>>.     *)
(* label_1 .. label_5 stand for the source's five column names, the labels  *)
(* of level one to five.                                                    *)

MaxKbRows == 2

NoCode == <<>>

Codes ==
  {<<"1">>, <<"2">>, <<"1", "">>, <<"1", "2">>, <<"1", "2", "3">>,
   <<"1", "2", "3", "4">>, <<"1", "2", "3", "4", "5">>,
   <<"1", "2", "3", "4", "5", "6">>}

\* selected_code.count(".")
CountDots(code) == Len(code) - 1

col_map == <<"label_1", "label_2", "label_3", "label_4", "label_5">>

\* a bug: the depth taken for the number of dots
DepthIsDots(code) == CountDots(code)

\* depth = selected_code.count(".") + 1
Depth(code) == CountDots(code) + 1

\* the rows of frame in which column col_name is code, in their order
RowsWhere(frame, col_name, code) ==
  LET hit(row) == row[IndexOf(frame.cols, col_name)] = code
  IN SelectSeq(frame.rows, hit)

filter_by_node_code(frame, code) ==
  IF Depth(code) \notin DOMAIN col_map \/ col_map[Depth(code)] \notin Range(frame.cols)
    THEN [cols |-> frame.cols, rows |-> <<>>]
    ELSE [cols |-> frame.cols, rows |-> RowsWhere(frame, col_map[Depth(code)], code)]

\* rows of the knowledge base over the five label columns
KbRows ==
  {<< <<"1">>, <<"1", "2">>, <<"1", "2", "3">>, <<"1", "2", "3", "4">>,
      <<"1", "2", "3", "4", "5">> >>,
   << <<"1">>, <<"1", "2">>, NoCode, NoCode, NoCode >>,
   << <<"2">>, <<"1", "">>, NoCode, NoCode, NoCode >>,
   << <<"1", "2">>, <<"1">>, <<"1", "2", "3">>, NoCode, NoCode >>}

\* the label columns a table has, as positions in col_map: all five, all but
\* the second, the first two the other way round
KbColumns == {<<1, 2, 3, 4, 5>>, <<1, 3, 4, 5>>, <<2, 1, 3, 4, 5>>}

KbFrame(columns, rows) ==
  [cols |-> [c \in 1..Len(columns) |-> col_map[columns[c]]],
   rows |-> [k \in 1..Len(rows) |-> [c \in 1..Len(columns) |-> rows[k][columns[c]]]]]

KbFrames == {KbFrame(cs, r) : cs \in KbColumns, r \in SeqsUpTo(KbRows, MaxKbRows)}

FilterByNodeCode ==
  /\ app_pc = "filter"
  /\ filtered' = filter_by_node_code(df_stats, selected_code)
  /\ app_pc' = "filtered"
  /\ UNCHANGED <<df_stats, selected_code, df_filt, node_type, edges>>
  /\ UNCHANGED <<buildVars, apiVars, mindVars>>

-----------------------------------------------------------------------------
(* app.py, the Global Network tab: the subgraph of the filtered rows.  A   *)
(* cell is a string or NaN.                                                *)

MaxFiltRows == 2

entity_cols == <<"Gene Symbol", "Cell type", "Disease", "Drugs", "Pathway">>

\* str.strip() of the cells of the model
Strip(v) == IF v = " B" THEN "B" ELSE IF v = "  " THEN "" ELSE v

\* sorted() of strings: their order
Before(a, b) == IndexOf(<<"A", "B", "C", "D">>, a) <= IndexOf(<<"A", "B", "C", "D">>, b)

\* a, b = sorted((x, y))
SortedPair(x, y) == IF Before(x, y) THEN <<x, y>> ELSE <<y, x>>

\* a cell that is neither NaN nor, stripped, empty or "-"
IsValue(raw_val) == raw_val # NA /\ Strip(raw_val) \notin {"-", ""}

\* row[c]
Cell(frame, row, c) == row[IndexOf(frame.cols, c)]

\* 3.1: node_type, every value with the last of the columns it stands in
NodeTypeOf(frame) ==
  LET at(c) == {Strip(Cell(frame, frame.rows[k], entity_cols[c])) :
                  k \in {j \in 1..Len(frame.rows) : IsValue(Cell(frame, frame.rows[j], entity_cols[c]))}}
      values == UNION {at(c) : c \in 1..Len(entity_cols)}
  IN [v \in values |->
        entity_cols[CHOOSE c \in 1..Len(entity_cols) :
               v \in at(c) /\ \A d \in (c + 1)..Len(entity_cols) : v \notin at(d)]]

\* vals of one row
Vals(frame, row) ==
  LET F[c \in 0..Len(entity_cols)] ==
        IF c = 0 THEN <<>>
        ELSE IF IsValue(Cell(frame, row, entity_cols[c]))
               THEN Append(F[c - 1], Strip(Cell(frame, row, entity_cols[c])))
               ELSE F[c - 1]
  IN F[Len(entity_cols)]

\* a bug: range(i + 1, i + 2), each value paired with the next one only
PairsOfNeighbours(vals) ==
  {SortedPair(vals[a], vals[a + 1]) : a \in 1..(Len(vals) - 1)}

\* the two nested loops over vals
PairsOf(vals) ==
  {SortedPair(vals[p[1]], vals[p[2]]) :
     p \in {q \in (1..Len(vals)) \X (1..Len(vals)) : q[1] < q[2]}}

\* 3.2: edges
EdgesOf(frame) == UNION {PairsOf(Vals(frame, frame.rows[k])) : k \in 1..Len(frame.rows)}

\* df_filt: the rows found, never none; a column the builder does not read,
\* then the five it reads
FilteredRows ==
  {<<"pmid", g, ct, di, dr, pw>> :
     g \in {"A", "B", NA}, ct \in {"A", " B", "-"}, di \in {"C", "  "},
     dr \in {"-", "A"}, pw \in {"D"}}

FilteredFrames ==
  {[cols |-> <<"PMID">> \o entity_cols, rows |-> r] :
     r \in SeqsUpTo(FilteredRows, MaxFiltRows) \ {<<>>}}

BuildSubgraph ==
  /\ app_pc = "graph"
  /\ node_type' = NodeTypeOf(df_filt)
  /\ edges' = EdgesOf(df_filt)
  /\ app_pc' = "drawn"
  /\ UNCHANGED <<df_stats, selected_code, filtered, df_filt>>
  /\ UNCHANGED <<buildVars, apiVars, mindVars>>

\* filter_by_node_code about to be called, or the subgraph about to be built
AppInit ==
  /\ \/ /\ app_pc = "filter"
        /\ df_stats \in KbFrames
        /\ selected_code \in Codes
        /\ df_filt = EmptyFrame
     \/ /\ app_pc = "graph"
        /\ df_stats = EmptyFrame
        /\ selected_code = <<>>
        /\ df_filt \in FilteredFrames
  /\ filtered = EmptyFrame
  /\ node_type = <<>>
  /\ edges = {}
  /\ BuildIdle
  /\ ApiIdle
  /\ MindIdle

AppNext == FilterByNodeCode \/ BuildSubgraph

AppSpec == AppInit /\ [][AppNext]_vars

-----------------------------------------------------------------------------
(* scripts/build_mindmap.py, parse_to_jsmind.  A line is a record [indent, *)
(* text]: the number of its leading spaces and what line.strip() leaves of *)
(* it, the empty string for a blank line.  The id n3 is <<"n", 3>>.  A     *)
(* node is a record [id, isroot, parentid, topic], parentid <<>> in a node *)
(* that has no such key.                                                   *)

MaxLines == 4
MaxIndent == 4

Nid(k) == <<"n", k>>

NoParent == <<>>

LineChoices ==
  {[indent |-> n, text |-> "t"] : n \in 0..MaxIndent} \cup {[indent |-> 1, text |-> ""]}

MindInit ==
  /\ mind_pc = "for"
  /\ lines \in SeqsUpTo(LineChoices, MaxLines)
  /\ pos = 0
  /\ nodes = <<>>
  /\ stack = <<>>
  /\ cid = 0
  /\ level = 0
  /\ nid = <<>>
  /\ BuildIdle
  /\ ApiIdle
  /\ AppIdle

\* if not text: continue
SkipBlankLine ==
  /\ mind_pc = "for"
  /\ pos < Len(lines)
  /\ lines[pos + 1].text = ""
  /\ pos' = pos + 1
  /\ UNCHANGED <<mind_pc, lines, nodes, stack, cid, level, nid>>
  /\ UNCHANGED <<buildVars, apiVars, appVars>>

\* level = indent // 2; nid = f"n{cid}"; cid += 1
TakeLine ==
  /\ mind_pc = "for"
  /\ pos < Len(lines)
  /\ lines[pos + 1].text # ""
  /\ pos' = pos + 1
  /\ level' = lines[pos + 1].indent \div 2
  /\ nid' = Nid(cid)
  /\ cid' = cid + 1
  /\ mind_pc' = "while"
  /\ UNCHANGED <<lines, nodes, stack>>
  /\ UNCHANGED <<buildVars, apiVars, appVars>>

\* a bug: > for >=, a line of the same level stays on the stack
StackBlocksStrict == stack # <<>> /\ stack[Len(stack)][1] > level

\* while stack and stack[-1][0] >= level
StackBlocks == stack # <<>> /\ stack[Len(stack)][1] >= level

\* stack.pop()
PopStack ==
  /\ mind_pc = "while"
  /\ StackBlocks
  /\ stack' = SubSeq(stack, 1, Len(stack) - 1)
  /\ UNCHANGED <<mind_pc, lines, pos, nodes, cid, level, nid>>
  /\ UNCHANGED <<buildVars, apiVars, appVars>>

\* the node of the line, a child of the top of the stack or a root; the line
\* goes on the stack
AppendNode ==
  /\ mind_pc = "while"
  /\ ~StackBlocks
  /\ nodes' = Append(nodes,
                     IF stack # <<>>
                       THEN [id |-> nid, isroot |-> FALSE,
                             parentid |-> stack[Len(stack)][2], topic |-> lines[pos].text]
                       ELSE [id |-> nid, isroot |-> TRUE,
                             parentid |-> NoParent, topic |-> lines[pos].text])
  /\ stack' = Append(stack, <<level, nid>>)
  /\ mind_pc' = "for"
  /\ UNCHANGED <<lines, pos, cid, level, nid>>
  /\ UNCHANGED <<buildVars, apiVars, appVars>>

\* the loop is over: return
ReturnMind ==
  /\ mind_pc = "for"
  /\ pos = Len(lines)
  /\ mind_pc' = "done"
  /\ UNCHANGED <<lines, pos, nodes, stack, cid, level, nid>>
  /\ UNCHANGED <<buildVars, apiVars, appVars>>

MindNext ==
  \/ SkipBlankLine
  \/ TakeLine
  \/ PopStack
  \/ AppendNode
  \/ ReturnMind

MindSpec == MindInit /\ [][MindNext]_vars

-----------------------------------------------------------------------------
(* What the claims speak of *)

\* the two endpoint columns of an edge table with header cols
EndpointColumns(cols) ==
  IF {"source", "target"} \subseteq Range(cols)
    THEN <<IndexOf(cols, "source"), IndexOf(cols, "target")>>
    ELSE <<1, 2>>

Endpoints(cols, row) ==
  <<row[EndpointColumns(cols)[1]], row[EndpointColumns(cols)[2]]>>

EndpointSet(f) ==
  UNION {Range(Endpoints(f.cols, f.rows[k])) : k \in 1..Len(f.rows)}

IdSet(f) == {f.rows[k][1] : k \in 1..Len(f.rows)}

NoRepeat(s) == \A k, l \in 1..Len(s) : s[k] = s[l] => k = l

FirstAt(s, x) == CHOOSE k \in 1..Len(s) : s[k] = x /\ \A j \in 1..(k - 1) : s[j] # x

\* m holds each value of s once, in the order of the first occurrences in s
IsFirstOccurrences(m, s) ==
  /\ Range(m) = Range(s)
  /\ \A k, l \in 1..Len(m) : k < l => FirstAt(s, m[k]) < FirstAt(s, m[l])

\* the lines of the two edge lists of tag, one after the other, as the merged
\* file lays them out
Concatenation(tag) ==
  CsvOf(Concat(LowerColumns(ReadCsv(raw[tag].orig_edges)),
               LowerColumns(ReadCsv(raw[tag].aug_edges)))).rows

MergedEdges(tag) == out[EdgesFile(tag)]
MergedNodes(tag) == out[NodesFile(tag)]

AllSourcesGood(tag) ==
  /\ raw[tag].orig_edges.kind = "table"
  /\ raw[tag].orig_nodes.kind = "table"
  /\ raw[tag].aug_edges.kind = "table"

RunEnded == pc \in {"done", "crashed"}

-----------------------------------------------------------------------------
(* The claims *)

\* C1: after a successful merge of a tag, the written node table has the one
\* column id, holds no identifier twice, and its ids are exactly the values of
\* the two endpoint columns of the written edge table.
C1_NodesAreEndpoints ==
  \A t \in merged :
    /\ MergedEdges(t).kind = "table"
    /\ MergedNodes(t).kind = "table"
    /\ MergedNodes(t).cols = <<"id">>
    /\ NoRepeat(MergedNodes(t).rows)
    /\ IdSet(MergedNodes(t)) = EndpointSet(MergedEdges(t))

C1_Witness ==
  \E t \in merged :
    /\ Len(MergedEdges(t).rows) >= 2
    /\ Len(MergedNodes(t).rows) >= 3
    /\ Len(MergedNodes(t).rows) < 2 * Len(MergedEdges(t).rows)

\* C2: between invocations, whenever the edge file and the node file of an
\* augmented tag both exist as tables, the node ids are exactly the endpoints
\* of the edge file.
C2_PersistedNodesMatchEdges ==
  RunEnded =>
    \A t \in AugTags :
      (MergedEdges(t).kind = "table" /\ MergedNodes(t).kind = "table")
        => IdSet(MergedNodes(t)) = EndpointSet(MergedEdges(t))

\* C3: the merged edge table has at most original_rows + augmented_rows rows,
\* and exactly that sum less the number of lines of the concatenation that
\* equal an earlier line.
C3_RowCount ==
  \A t \in merged :
    LET total == Len(raw[t].orig_edges.rows) + Len(raw[t].aug_edges.rows)
        cc == Concatenation(t)
        repeats == {k \in 1..Len(cc) : \E j \in 1..(k - 1) : cc[j] = cc[k]}
    IN /\ Len(MergedEdges(t).rows) <= total
       /\ Len(MergedEdges(t).rows) = total - Cardinality(repeats)

C3_Witness ==
  \E t \in merged :
    /\ Len(MergedEdges(t).rows) >= 2
    /\ Len(MergedEdges(t).rows)
         < Len(raw[t].orig_edges.rows) + Len(raw[t].aug_edges.rows)

\* C4: the merged edge table is the original lines followed by the augmented
\* lines with every line equal to an earlier one removed: first occurrences,
\* in order, the original's before the augmented-only ones; original [(A,B)]
\* and augmented [(A,B),(C,D)] give edges [(A,B),(C,D)] and nodes {A,B,C,D}.
C4_FirstOccurrencesInOrder ==
  \A t \in merged :
    LET cc == Concatenation(t)
        m == MergedEdges(t).rows
        fromOrig == Range(SubSeq(cc, 1, Len(raw[t].orig_edges.rows)))
    IN /\ IsFirstOccurrences(m, cc)
       /\ \A k, l \in 1..Len(m) :
            (m[k] \in fromOrig /\ m[l] \notin fromOrig) => k < l
       /\ ( /\ raw[t].orig_edges = CsvFile(<<"source", "target">>, << <<"A", "B">> >>)
            /\ raw[t].aug_edges
                 = CsvFile(<<"source", "target">>, << <<"A", "B">>, <<"C", "D">> >>) )
            => /\ MergedEdges(t)
                    = CsvFile(<<"source", "target">>, << <<"A", "B">>, <<"C", "D">> >>)
               /\ IdSet(MergedNodes(t)) = {"A", "B", "C", "D"}

C4_Witness ==
  \E t \in merged :
    /\ raw[t].orig_edges = CsvFile(<<"source", "target">>, << <<"A", "B">> >>)
    /\ raw[t].aug_edges
         = CsvFile(<<"source", "target">>, << <<"A", "B">>, <<"C", "D">> >>)
    /\ Len(MergedEdges(t).rows) = 2

\* C5: when the concatenation holds a line with endpoints (A,B) and a line
\* with endpoints (B,A), A different from B, both lines are in the merged edge
\* table.
C5_SwappedPairBothKept ==
  \A t \in merged :
    LET cc == Concatenation(t)
        cols == MergedEdges(t).cols
    IN \A k, l \in 1..Len(cc) :
         ( /\ Endpoints(cols, cc[k])[1] # Endpoints(cols, cc[k])[2]
           /\ Endpoints(cols, cc[l]) = <<Endpoints(cols, cc[k])[2], Endpoints(cols, cc[k])[1]>> )
           => /\ cc[k] \in Range(MergedEdges(t).rows)
              /\ cc[l] \in Range(MergedEdges(t).rows)

C5_Witness ==
  \E t \in merged :
    \E k, l \in 1..Len(MergedEdges(t).rows) :
      /\ Endpoints(MergedEdges(t).cols, MergedEdges(t).rows[k]) = <<"A", "B">>
      /\ Endpoints(MergedEdges(t).cols, MergedEdges(t).rows[l]) = <<"B", "A">>

\* C6: the merged edge table holds at most one line per unordered endpoint
\* pair {A,B}.
C6_OneLinePerUnorderedPair ==
  \A t \in merged :
    \A k, l \in 1..Len(MergedEdges(t).rows) :
      Range(Endpoints(MergedEdges(t).cols, MergedEdges(t).rows[k]))
          = Range(Endpoints(MergedEdges(t).cols, MergedEdges(t).rows[l]))
        => k = l

\* C7: when the script has run to its end twice in a row over the same inputs,
\* every augmented subtype's edge file and node file are, line for line, what
\* they were after the first of the two runs.
C7_SecondRunSameOutput ==
  (pc = "done" /\ runs >= 2 /\ prevDone) =>
    \A t \in AugTags :
      /\ MergedEdges(t) = prev[EdgesFile(t)]
      /\ MergedNodes(t) = prev[NodesFile(t)]

C7_Witness ==
  /\ pc = "done"
  /\ runs >= 2
  /\ prevDone
  /\ merged = AugTags
  /\ \A t \in AugTags : Len(MergedEdges(t).rows) >= 2

C9_MissingSourceSkipsOnlyItsTag ==
  \A x, y \in AugTags :
    ( /\ x # y
      /\ RunEnded
      /\ err # "write"
      /\ raw[x].orig_edges.kind = "absent"
      /\ AllSourcesGood(y) )
      => /\ y \in merged
         /\ MergedEdges(y).kind = "table"
         /\ MergedNodes(y).kind = "table"
         /\ MergedEdges(y).rows = KeepFirst(Concatenation(y))

C9_Witness ==
  /\ pc = "done"
  /\ raw[aug_map[1]].orig_edges.kind = "absent"
  /\ aug_map[2] \in merged
  /\ MergedNodes(aug_map[2]).kind = "table"
  /\ MergedNodes(aug_map[1]).kind = "absent"

\* C10: an edge list that is there but cannot be parsed does not end the
\* script: no run stops in the merge loop on a parse failure.
C10_ParseFailureContained ==
  \A t \in AugTags :
    ( /\ raw[t].orig_edges.kind # "absent"
      /\ raw[t].orig_nodes.kind # "absent"
      /\ raw[t].aug_edges.kind # "absent"
      /\ "garbage" \in {raw[t].orig_edges.kind, raw[t].aug_edges.kind} )
      => ~(pc = "crashed" /\ err = "parse" /\ aug_map[i] = t)

\* the reports of the merge loop about the augmented subtype tag
ReportsAbout(tag) ==
  {k \in 1..Len(log) :
     /\ log[k].kind \in {"merged", "missing_original", "missing_augmented"}
     /\ log[k].tag \in {tag, OriginalOf(tag)}}

\* the loop body has been left for the k-th augmented subtype
Ended(k) ==
  /\ pc # "copy"
  /\ k < i \/ (pc = "crashed" /\ k = i)

SourceFile(tag, path) ==
  IF path = "orig_edges" THEN raw[tag].orig_edges
  ELSE IF path = "orig_nodes" THEN raw[tag].orig_nodes
  ELSE raw[tag].aug_edges

\* C11: in a run that reached its end, an augmented subtype was skipped for a
\* missing source exactly when its original edge file or its augmented edge
\* file is absent, and a subtype whose two edge files are there and parse was
\* merged and has both its files written.
C11_SkippedExactlyWhenEdgeFileMissing ==
  pc = "done" =>
    \A t \in AugTags :
      /\ (\E n \in ReportsAbout(t) : log[n].kind # "merged")
           <=> (raw[t].orig_edges.kind = "absent" \/ raw[t].aug_edges.kind = "absent")
      /\ (raw[t].orig_edges.kind = "table" /\ raw[t].aug_edges.kind = "table")
           => /\ t \in merged
              /\ MergedEdges(t).kind = "table"
              /\ MergedNodes(t).kind = "table"

\* C12: every augmented subtype whose turn is over has exactly one report: a
\* merge summary whose counts are the row counts of the node and edge files
\* written, or a report naming the subtype and the path of a source file that
\* is missing or cannot be parsed.
C12_OneReportPerSubtype ==
  \A k \in 1..Len(aug_map) :
    Ended(k) =>
      LET t == aug_map[k]
      IN /\ Cardinality(ReportsAbout(t)) = 1
         /\ \A n \in ReportsAbout(t) :
              IF log[n].kind = "merged"
                THEN /\ log[n].nodes = Len(MergedNodes(t).rows)
                     /\ log[n].edges = Len(MergedEdges(t).rows)
                ELSE \E path \in log[n].paths : SourceFile(t, path).kind # "table"

\* C13: once a write of the merge loop has failed, the invocation is over: no
\* later subtype is merged or reported, and neither the 5.3 copy nor the
\* archive step has run.
C13_WriteFailureEndsBuild ==
  err = "write" =>
    /\ pc = "crashed"
    /\ \A k \in (i + 1)..Len(aug_map) :
         aug_map[k] \notin merged /\ ReportsAbout(aug_map[k]) = {}
    /\ \A n \in 1..Len(log) : log[n].kind \notin {"subtypes_built", "all_built"}

C13_Witness ==
  /\ err = "write"
  /\ pc = "crashed"
  /\ i = 1
  /\ AllSourcesGood(aug_map[2])
  /\ MergedEdges(aug_map[1]).kind = "table"

\* C14: when the second augmented subtype has failed or been skipped, the two
\* files the first one wrote in the same invocation are whole: the edge file
\* is the first subtype's merge result and the node file its endpoints.
C14_FirstOutputsSurviveSecondFailure ==
  LET first == aug_map[1]
      second == aug_map[2]
  IN ( /\ first \in merged
       /\ second \notin merged
       /\ (pc = "crashed" /\ i = 2) \/ i > 2 )
       => /\ MergedEdges(first).kind = "table"
          /\ MergedEdges(first).rows = KeepFirst(Concatenation(first))
          /\ MergedNodes(first).kind = "table"
          /\ NoRepeat(MergedNodes(first).rows)
          /\ IdSet(MergedNodes(first)) = EndpointSet(MergedEdges(first))

C14_Witness ==
  /\ aug_map[1] \in merged
  /\ pc = "crashed"
  /\ i = 2
  /\ err = "write"
  /\ MergedNodes(aug_map[2]).kind = "garbage"
  /\ Len(MergedNodes(aug_map[1]).rows) >= 3

\* C15: a step of the merge loop leaves raw_data as it is and changes no file
\* of data/subtype but the edge and node files of the subtype it is at.
C15_MergeTouchesOnlyItsFiles ==
  [][pc = "merge" =>
       /\ raw' = raw
       /\ \A f \in OutFiles \ {EdgesFile(aug_map[i]), NodesFile(aug_map[i])} :
            out'[f] = out[f]]_vars

C15_Witness ==
  /\ merged = AugTags
  /\ \A f \in OutFiles : out[f].kind = "table"
  /\ MergedEdges(aug_map[1]) # MergedEdges(aug_map[2])

\* C16: after a successful merge the subtype's edge file holds the lines of
\* the current merge result and no other, each once, and its node file the
\* endpoints of those lines and no other id: nothing of what the files held
\* before is left unless the merge produces it.
C16_FilesHoldOnlyCurrentMerge ==
  \A t \in merged :
    LET cc == Concatenation(t)
        cols == Concat(LowerColumns(ReadCsv(raw[t].orig_edges)),
                       LowerColumns(ReadCsv(raw[t].aug_edges))).cols
        ends == UNION {Range(Endpoints(cols, cc[k])) : k \in 1..Len(cc)}
    IN /\ MergedEdges(t).cols = cols
       /\ Range(MergedEdges(t).rows) \subseteq Range(cc)
       /\ Len(MergedEdges(t).rows) = Cardinality(Range(cc))
       /\ MergedNodes(t).cols = <<"id">>
       /\ IdSet(MergedNodes(t)) \subseteq ends
       /\ Len(MergedNodes(t).rows) = Cardinality(ends)

C16_Witness ==
  \E t \in merged :
    /\ prev[EdgesFile(t)].kind = "table"
    /\ prev[NodesFile(t)].kind = "table"
    /\ \E k \in 1..Len(prev[EdgesFile(t)].rows) :
         prev[EdgesFile(t)].rows[k] \notin Range(MergedEdges(t).rows)
    /\ \E k \in 1..Len(prev[NodesFile(t)].rows) :
         prev[NodesFile(t)].rows[k] \notin Range(MergedNodes(t).rows)

LowercaseNames == {"source", "target", "gene1", "gene2", "weight", "id"}

\* two header lines that differ in the case of letters at most
SameUpToCase(h, g) ==
  /\ Len(h) = Len(g)
  /\ \A c \in 1..Len(h) :
       \/ h[c] = g[c]
       \/ {h[c], g[c]} \in {{"source", "Source"}, {"target", "Target"}}

\* C17: every column name of the merged edge table is lowercase, and two
\* sources whose column names differ only in case are merged into the same
\* columns, so that an augmented line equal to an original line is there once.
C17_ColumnsLowercased ==
  \A t \in merged :
    LET o == raw[t].orig_edges
        a == raw[t].aug_edges
        m == MergedEdges(t)
    IN /\ Range(m.cols) \subseteq LowercaseNames
       /\ SameUpToCase(o.cols, a.cols) =>
            /\ SameUpToCase(m.cols, o.cols)
            /\ \A r \in Range(o.rows) \cup Range(a.rows) :
                 Cardinality({k \in 1..Len(m.rows) : m.rows[k] = r}) = 1

C17_Witness ==
  \E t \in merged :
    /\ raw[t].orig_edges.cols = <<"Source", "Target">>
    /\ raw[t].aug_edges.cols = <<"source", "target">>
    /\ Range(raw[t].orig_edges.rows) \cap Range(raw[t].aug_edges.rows) # {}
    /\ MergedEdges(t).cols = <<"source", "target">>
    /\ Len(MergedEdges(t).rows) = 2

\* C18: the node ids are the values of the columns named source and target of
\* the merged edge table when it has both names, and of its first two columns
\* otherwise; a value found in other columns only is no node id.
C18_NodesFromNamedOrFirstTwo ==
  \A t \in merged :
    LET e == MergedEdges(t)
        from == IF "source" \in Range(e.cols) /\ "target" \in Range(e.cols)
                  THEN {c \in 1..Len(e.cols) : e.cols[c] \in {"source", "target"}}
                  ELSE {1, 2}
        cells(at) == {e.rows[k][c] : k \in 1..Len(e.rows), c \in at}
    IN /\ IdSet(MergedNodes(t)) = cells(from)
       /\ (cells(1..Len(e.cols) \ from) \ cells(from)) \cap IdSet(MergedNodes(t)) = {}

C18_Witness ==
  \E t \in merged :
    /\ MergedEdges(t).cols = <<"gene1", "gene2", "source", "target">>
    /\ \E k \in 1..Len(MergedEdges(t).rows) : MergedEdges(t).rows[k][1] = "C"
    /\ "C" \notin IdSet(MergedNodes(t))
    /\ "A" \in IdSet(MergedNodes(t))

\* C19: the node ids are exactly the endpoints of the lines of the two input
\* tables, whatever the two sources call their endpoint columns.
C19_NodesAreInputEndpoints ==
  \A t \in merged :
    IdSet(MergedNodes(t))
      = EndpointSet(raw[t].orig_edges) \cup EndpointSet(raw[t].aug_edges)

\* C20: a run that ended without a failed write has been at every augmented
\* subtype once, in the order of aug_map, and has left the merge loop at its
\* end.
C20_SinglePassReachesEnd ==
  (RunEnded /\ err # "write") =>
    /\ i = Len(aug_map) + 1
    /\ \A k \in 1..Len(aug_map) : Cardinality(ReportsAbout(aug_map[k])) = 1
    /\ \A k, l \in 1..Len(aug_map) :
         k < l => \A n \in ReportsAbout(aug_map[k]) :
                    \A q \in ReportsAbout(aug_map[l]) : n < q

-----------------------------------------------------------------------------
(* api.py *)

\* the response holds the table f as it is in the file: one object per line,
\* in the file's order, the header's names its keys, every cell as written
ServedAsWritten(resp, key, f) ==
  /\ resp.status = 200
  /\ resp.key = key
  /\ Len(resp.rows) = Len(f.rows)
  /\ \A k \in 1..Len(f.rows) :
       /\ DOMAIN resp.rows[k] = Range(f.cols)
       /\ \A c \in 1..Len(f.cols) : resp.rows[k][f.cols[c]] = f.rows[k][c]

\* the table file a request for a subtype's nodes or edges is about
RequestedTable ==
  IF request.endpoint = "/api/subtype/{tag}/nodes"
    THEN data.tables[SubtypeNodesPath(request.name)]
    ELSE data.tables[SubtypeEdgesPath(request.name)]

\* C21: the nodes and edges endpoints of a subtype answer 404 when the file of
\* the tag does not exist and otherwise return the table unmodified, one row
\* object per row of the file, in file order, keyed by the file's column
\* names; no request changes a file
C21_SubtypeTablesServedUnmodified ==
  /\ [](request.endpoint \in {"/api/subtype/{tag}/nodes", "/api/subtype/{tag}/edges"} =>
          /\ RequestedTable.kind = "absent" => response.status = 404
          /\ RequestedTable.kind = "table" =>
               ServedAsWritten(response,
                               IF request.endpoint = "/api/subtype/{tag}/nodes"
                                 THEN "nodes" ELSE "edges",
                               RequestedTable))
  /\ [][data' = data]_vars

\* the object the API makes of line k of the table f: the header's names its
\* keys, a missing value the empty string
RowAsRead(f, k) ==
  [c \in Range(f.cols) |->
     IF f.rows[k][IndexOf(f.cols, c)] \in NaValues
       THEN ""
       ELSE f.rows[k][IndexOf(f.cols, c)]]

RequestedMetric == data.tables[CentralityPath(request.name)]

\* N of a centrality request: the query parameter top, 30 without one
RequestedTop == IF request.has_top THEN request.top ELSE 30

\* C22: a centrality request with N >= 1 is answered 404 when the metric's
\* file does not exist and otherwise with exactly the first min(N, row count)
\* rows of the file, in file order; N is 30 when the request gives none
C22_CentralityTopRows ==
  request.endpoint = "/api/centrality/{metric_name}" /\ RequestedTop >= 1 =>
    /\ RequestedMetric.kind = "absent" => response.status = 404
    /\ RequestedMetric.kind = "table" =>
         /\ response.status = 200
         /\ Len(response.rows) = Min(RequestedTop, Len(RequestedMetric.rows))
         /\ \A k \in 1..Len(response.rows) : response.rows[k] = RowAsRead(RequestedMetric, k)

\* top = 1 over a file of two different rows: the first row alone
C22_Witness ==
  /\ request.endpoint = "/api/centrality/{metric_name}"
  /\ request.has_top
  /\ request.top = 1
  /\ Len(RequestedMetric.rows) = 2
  /\ RequestedMetric.rows[1] # RequestedMetric.rows[2]
  /\ response.status = 200
  /\ Len(response.rows) = 1
  /\ response.rows[1]["node"] = RequestedMetric.rows[1][1]

\* the response holds every line of the table f, in order, as the API reads it
ServesFile(resp, key, f) ==
  /\ resp.status = 200
  /\ resp.key = key
  /\ Len(resp.rows) = Len(f.rows)
  /\ \A k \in 1..Len(f.rows) : resp.rows[k] = RowAsRead(f, k)

OrganicStem == IF request.endpoint = "/api/organic/nodes" THEN "organic_nodes" ELSE "organic_edges"
OrganicKey == IF request.endpoint = "/api/organic/nodes" THEN "nodes" ELSE "edges"
RequestedWorkbook == data.tables[OrganicPath(OrganicStem, ".xlsx")]
RequestedOrganicCsv == data.tables[OrganicPath(OrganicStem, ".csv")]

\* C23: the organic nodes and edges endpoints serve the .xlsx whenever it
\* exists and the .csv only when the .xlsx is absent; they answer 404 only
\* when neither exists, and 500 when the file chosen cannot be read, an
\* unreadable .xlsx not being replaced by an existing .csv
C23_OrganicPrefersWorkbook ==
  request.endpoint \in {"/api/organic/nodes", "/api/organic/edges"} =>
    /\ RequestedWorkbook.kind = "table" => ServesFile(response, OrganicKey, RequestedWorkbook)
    /\ RequestedWorkbook.kind = "garbage" => response.status = 500
    /\ RequestedWorkbook.kind = "absent" /\ RequestedOrganicCsv.kind = "table" =>
         ServesFile(response, OrganicKey, RequestedOrganicCsv)
    /\ RequestedWorkbook.kind = "absent" /\ RequestedOrganicCsv.kind = "garbage" =>
         response.status = 500
    /\ response.status = 404 <=>
         RequestedWorkbook.kind = "absent" /\ RequestedOrganicCsv.kind = "absent"

\* an unreadable workbook beside a good .csv: 500
C23_Witness ==
  /\ request.endpoint = "/api/organic/edges"
  /\ RequestedWorkbook.kind = "garbage"
  /\ RequestedOrganicCsv.kind = "table"
  /\ response.status = 500

RequestedCyjs ==
  IF request.endpoint = "/api/subtype/{tag}/elements"
    THEN data.docs[SubtypeCyjsPath(request.name)]
    ELSE data.docs[OrganicCyjsPath]

\* C24: the elements endpoint of a subtype answers 404 when the .cyjs is
\* absent, 500 when its content is not valid JSON, an empty array when the
\* JSON has no "elements" key and otherwise the value of that key; the organic
\* elements endpoint answers 500 when the key is missing
C24_ElementsOrEmpty ==
  /\ request.endpoint = "/api/subtype/{tag}/elements" =>
       /\ RequestedCyjs.kind = "absent" => response.status = 404
       /\ RequestedCyjs.kind = "text" => response.status = 500
       /\ RequestedCyjs.kind = "json" /\ ~RequestedCyjs.has_elements =>
            response.status = 200 /\ response.elements = "[]"
       /\ RequestedCyjs.kind = "json" /\ RequestedCyjs.has_elements =>
            response.status = 200 /\ response.elements = RequestedCyjs.elements
  /\ request.endpoint = "/api/organic/elements" =>
       (RequestedCyjs.kind = "json" /\ ~RequestedCyjs.has_elements => response.status = 500)

\* the value a JSON object holds under "elements" is missing or null
NoElements(doc) == ~doc.has_elements \/ doc.elements = "null"

\* C24, amended: 404 when the .cyjs is absent; 500 when its content is not
\* valid JSON or is JSON but not an object; an empty array when the object has
\* no "elements" key or holds null under it, otherwise the value of the key;
\* the organic endpoint answers 500 when the key is missing or null
C24_ElementsOrEmptyOfObject ==
  /\ request.endpoint = "/api/subtype/{tag}/elements" =>
       /\ RequestedCyjs.kind = "absent" => response.status = 404
       /\ RequestedCyjs.kind = "text" => response.status = 500
       /\ RequestedCyjs.kind = "json" /\ RequestedCyjs.top # "object" => response.status = 500
       /\ RequestedCyjs.kind = "json" /\ RequestedCyjs.top = "object" =>
            /\ response.status = 200
            /\ response.elements = IF NoElements(RequestedCyjs)
                                     THEN "[]" ELSE RequestedCyjs.elements
  /\ request.endpoint = "/api/organic/elements" =>
       /\ RequestedCyjs.kind = "absent" => response.status = 404
       /\ RequestedCyjs.kind = "json" /\ RequestedCyjs.top = "object" =>
            IF NoElements(RequestedCyjs)
              THEN response.status = 500
              ELSE response.status = 200 /\ response.elements = RequestedCyjs.elements

\* a .cyjs that is a JSON object without the key: the empty array
C24_Witness ==
  /\ request.endpoint = "/api/subtype/{tag}/elements"
  /\ RequestedCyjs.kind = "json"
  /\ RequestedCyjs.top = "object"
  /\ ~RequestedCyjs.has_elements
  /\ response.status = 200
  /\ response.elements = "[]"

-----------------------------------------------------------------------------
(* app.py *)

\* the lines of table t at the positions in at, in their order, are exactly res
IsSelection(res, t, at) ==
  /\ Len(res) = Cardinality(at)
  /\ \A k \in at : res[Cardinality({j \in at : j <= k})] = t[k]

\* the label column of a code: by the number of its dots plus one
LabelColumn(code) ==
  CASE Len(code) = 1 -> "label_1"
    [] Len(code) = 2 -> "label_2"
    [] Len(code) = 3 -> "label_3"
    [] Len(code) = 4 -> "label_4"
    [] Len(code) = 5 -> "label_5"
    [] OTHER -> "none"

\* C25: filter_by_node_code(df, code) takes the label column of depth
\* (number of dots in code) + 1, for depth 1 to 5, and returns exactly the
\* rows of df whose value in that column is code, in their order; it returns
\* no row when the depth is above 5 or df has no such column; df is unchanged
C25_FilterByDepthColumn ==
  [][app_pc = "filter" =>
       /\ df_stats' = df_stats
       /\ IF LabelColumn(selected_code) \in Range(df_stats.cols)
            THEN IsSelection(filtered'.rows, df_stats.rows,
                             {k \in 1..Len(df_stats.rows) :
                                df_stats.rows[k][IndexOf(df_stats.cols,
                                                         LabelColumn(selected_code))]
                                  = selected_code})
            ELSE filtered'.rows = <<>>]_vars

\* code 1.2 over a table with the code in the first label column of one row
\* and in the second of another: the second row alone
C25_Witness ==
  /\ app_pc = "filtered"
  /\ selected_code = <<"1", "2">>
  /\ df_stats.cols = col_map
  /\ Len(df_stats.rows) = 2
  /\ df_stats.rows[1][1] = selected_code
  /\ df_stats.rows[2][2] = selected_code
  /\ filtered.rows = <<df_stats.rows[2]>>

\* the values of line k of the filtered rows: the cells of the five entity
\* columns that are not NaN and not, stripped, empty or "-"
RowValues(k) ==
  {c \in 1..5 :
     LET v == df_filt.rows[k][IndexOf(df_filt.cols, entity_cols[c])]
     IN v # NA /\ Strip(v) # "" /\ Strip(v) # "-"}

ValueAt(k, c) == Strip(df_filt.rows[k][IndexOf(df_filt.cols, entity_cols[c])])

C27_NoSelfLoop ==
  app_pc = "drawn" => \A e \in edges : e[1] # e[2]

-----------------------------------------------------------------------------
(* scripts/build_mindmap.py *)

\* the lines that are not blank, and the level of a line
NonBlank == {j \in 1..Len(lines) : lines[j].text # ""}
LevelOf(j) == lines[j].indent \div 2

\* the line of the k-th node, and the node of a line that is not blank
LineOfNode(k) == CHOOSE j \in NonBlank : Cardinality({m \in NonBlank : m <= j}) = k
NodeOfLine(j) == Cardinality({m \in NonBlank : m <= j})

\* the lines before line j that are not blank and of a smaller level
Above(j) == {m \in NonBlank : m < j /\ LevelOf(m) < LevelOf(j)}

Nearest(S) == CHOOSE m \in S : \A n \in S : n <= m

\* C28: every line that is not blank gets the ids n0, n1, ... in line order;
\* the parent of a node is the nearest line before it that is not blank and
\* has a strictly smaller level (leading spaces // 2), and the node is a root
\* exactly when there is no such line; the levels on the stack increase
\* strictly from bottom to top all through the pass, and every parentid is an
\* id given out earlier
C28_ParentIsNearestShallowerLine ==
  /\ Len(nodes) <= Cardinality(NonBlank)
  /\ mind_pc = "done" => Len(nodes) = Cardinality(NonBlank)
  /\ \A k \in 1..Len(nodes) :
       /\ nodes[k].id = Nid(k - 1)
       /\ nodes[k].isroot <=> Above(LineOfNode(k)) = {}
       /\ nodes[k].isroot => nodes[k].parentid = NoParent
       /\ ~nodes[k].isroot =>
            /\ nodes[k].parentid = Nid(NodeOfLine(Nearest(Above(LineOfNode(k)))) - 1)
            /\ \E j \in 1..(k - 1) : nodes[j].id = nodes[k].parentid
  /\ \A a, b \in 1..Len(stack) : a < b => stack[a][1] < stack[b][1]

\* levels 0, 1, 2, 1: the last line is a child of the first, under which the
\* second and third were taken off the stack
C28_Witness ==
  /\ mind_pc = "done"
  /\ Len(nodes) = 4
  /\ LevelOf(3) = 2
  /\ nodes[3].parentid = Nid(1)
  /\ nodes[4].parentid = Nid(0)
  /\ Len(stack) = 2

\* the root a node leads to along the parentid links
RootOf ==
  LET R[k \in 1..Len(nodes)] ==
        IF nodes[k].isroot THEN k ELSE R[nodes[k].parentid[2] + 1]
  IN R

\* C29: for every input that is not empty the nodes hold exactly one node
\* marked isroot, and the parentid links lead from every other node to it
C29_ExactlyOneRoot ==
  mind_pc = "done" /\ Len(lines) > 0 =>
    /\ Cardinality({k \in 1..Len(nodes) : nodes[k].isroot}) = 1
    /\ \A k \in 1..Len(nodes) : nodes[RootOf[k]].isroot

-----------------------------------------------------------------------------
(* make_stats_zip *)

\* the names make_stats_zip is to archive: the files of data/stats that are
\* not archives, however the suffix is spelled
NonZipFiles(dir) ==
  {n \in StatNames : dir[n].kind = "file" /\ Suffix(n) \notin {".zip", ".ZIP"}}

\* C30: make_stats_zip writes cdk4_6_kb_full.zip holding exactly the regular
\* files of data/stats whose suffix is not .zip in any spelling, each under its
\* own name, so it never holds itself or another archive; with no such file
\* the archive, if any, stays as it was; no other entry of data/stats changes
C30_ArchiveHoldsNonZipFiles ==
  [][pc = "zip" =>
       /\ NonZipFiles(stats) # {} =>
            /\ stats'[zip_name].kind = "file"
            /\ stats'[zip_name].members = {<<n, stats[n].text>> : n \in NonZipFiles(stats)}
            /\ \A m \in stats'[zip_name].members : Suffix(m[1]) \notin {".zip", ".ZIP"}
       /\ NonZipFiles(stats) = {} => stats'[zip_name] = stats[zip_name]
       /\ \A n \in StatNames \ {zip_name} : stats'[n] = stats[n]]_vars

\* an archive of another build and an upper-case .ZIP beside two files: the
\* new archive holds the two files only
C30_Witness ==
  /\ pc = "done"
  /\ stats["old.ZIP"].kind = "file"
  /\ stats["figures"].kind = "dir"
  /\ stats[zip_name].members = {<<"cdk4_6_kb.csv", "v2">>, <<"notes.txt", "v1">>}

=============================================================================
